---- MODULE Spec2Model ----
(***************************************************************************)
(* SingleLinkedList<Type> of single-linked-list.h as a state machine.      *)
(*                                                                         *)
(* The heap is a pool of Node cells (alloc / val / nxt); every list object *)
(* is a sentinel head_ (only its next_node is used) and a cached size_.    *)
(* A position (what an iterator's node_ holds) is a node address, the      *)
(* address of a list's sentinel, or nullptr.  Every member function is a   *)
(* pure transformer of the program state, written statement by statement   *)
(* from the source, and one action applies it.  `new` may throw            *)
(* std::bad_alloc: an operation is given the number of allocations that    *)
(* succeed before the next one throws.                                     *)
(***************************************************************************)
EXTENDS Integers, Sequences, FiniteSets, TLC

\* Size of the node pool (addresses 1..MaxNodes).
MaxNodes == 3
\* Longest initializer list passed to the constructor.
MaxLen == 3

\* Element values (Type).
Values == {1, 2}
\* The list objects of the program.
Lists == {1, 2}
\* The local `temp` of operator=.
Temp == 3
AllLists == Lists \cup {Temp}
Nodes == 1..MaxNodes
\* nullptr
Null == 0
\* &head_ of list l: the sentinel is a Node of its own, not a pool cell.
Sentinel(l) == 0 - l
Positions == Nodes \cup {Sentinel(l) : l \in AllLists} \cup {Null}
InitLists == UNION {[1..n -> Values] : n \in 0..MaxLen}

VARIABLES
    live,       \* live[l]: the list object l is constructed and not destroyed
    head,       \* head[l]: head_.next_node of list l
    size,       \* size[l]: size_ of list l
    alloc,      \* alloc[n]: cell n is allocated (new'ed and not deleted)
    val,        \* val[n]: Node::value of cell n
    nxt,        \* nxt[n]: Node::next_node of cell n
    badFree,    \* a delete of a cell that was not allocated has happened
    aborted,    \* an assert has failed: the program is gone
    threw,      \* the last call left by std::bad_alloc
    ret,        \* the iterator the last call returned (Null when it returns none)
    call        \* the last call: its name, its list, GetSize() before it

vars == <<live, head, size, alloc, val, nxt, badFree, aborted, threw, ret, call>>

\* The program state as one record, so that member functions are operators on it.
Cur ==
    [live |-> live, head |-> head, size |-> size, alloc |-> alloc, val |-> val,
     nxt |-> nxt, badFree |-> badFree, aborted |-> aborted, threw |-> threw, ret |-> ret]

---------------------------------------------------------------------------
(* Node, new and delete *)

\* node->next_node, for a pool cell or a sentinel
NextOf(s, p) == IF p < 0 THEN s.head[0 - p] ELSE s.nxt[p]

\* node->next_node = q
SetNext(s, p, q) ==
    IF p < 0 THEN [s EXCEPT !.head[0 - p] = q] ELSE [s EXCEPT !.nxt[p] = q]

HasFree(s) == \E n \in Nodes : ~s.alloc[n]

\* The address the next successful `new Node` returns: the lowest free cell.
\* No operation of the list observes an address other than by identity.
Fresh(s) == CHOOSE n \in Nodes : ~s.alloc[n] /\ \A m \in Nodes : m < n => s.alloc[m]

\* new Node(v, next), when it succeeds
NewNode(s, v, next) ==
    LET a == Fresh(s)
    IN [s EXCEPT !.alloc[a] = TRUE, !.val[a] = v, !.nxt[a] = next]

\* new throws std::bad_alloc
Throw(s) == [s EXCEPT !.threw = TRUE]

\* delete n. The contents of a freed cell are not part of the state.
Delete(s, n) ==
    IF s.alloc[n]
    THEN [s EXCEPT !.alloc[n] = FALSE, !.val[n] = 0, !.nxt[n] = Null]
    ELSE [s EXCEPT !.badFree = TRUE]

\* assert(cond) failing (the contracts are the asserts: a build with them on)
Abort(s) == [s EXCEPT !.aborted = TRUE]

---------------------------------------------------------------------------
(* Iterators and observers *)

GetSize(s, l) == s.size[l]
IsEmpty(s, l) == s.size[l] = 0
begin(s, l) == s.head[l]
end == Null
before_begin(l) == Sentinel(l)
\* operator*
Deref(s, it) == s.val[it]
\* operator++
Advance(s, it) == NextOf(s, it)

\* The cells met from position `it` up to end(), by operator++ (at most k of them).
RECURSIVE CellsFrom(_, _, _)
CellsFrom(s, it, k) ==
    IF it = end \/ k = 0 THEN <<>>
    ELSE <<it>> \o CellsFrom(s, Advance(s, it), k - 1)

\* for (it = begin(); it != end(); ++it): the cells of list l, in order
Chain(s, l) == CellsFrom(s, begin(s, l), MaxNodes + 1)
ChainSet(s, l) == LET c == Chain(s, l) IN {c[i] : i \in 1..Len(c)}
\* ... and the values *it read on the way
Iterate(s, l) == LET c == Chain(s, l) IN [i \in 1..Len(c) |-> Deref(s, c[i])]

---------------------------------------------------------------------------
(* Member functions *)

\* SingleLinkedList()
DefaultCtor(s, l) == [s EXCEPT !.head[l] = Null, !.size[l] = 0, !.live[l] = TRUE]

\* PushFront(value); `ok`: the allocation is not made to fail
PushFront(s, l, value, ok) ==
    IF ~(ok /\ HasFree(s)) THEN Throw(s)
    ELSE LET next == Fresh(s)
             s1 == NewNode(s, value, s.head[l])
         IN [s1 EXCEPT !.head[l] = next, !.size[l] = @ + 1]

\* A faulty swap: the chains are exchanged, the sizes are not.
swap_heads_only(s, l, other) ==
    [s EXCEPT !.head[l] = s.head[other], !.head[other] = s.head[l]]

\* swap(other): std::swap of head_.next_node, then of size_
swap(s, l, other) ==
    [s EXCEPT !.head[l] = s.head[other], !.head[other] = s.head[l],
              !.size[l] = s.size[other], !.size[other] = s.size[l]]

RECURSIVE ReverseLoop(_, _, _)
ReverseLoop(s, prev, current) ==
    IF current = Null THEN [st |-> s, prev |-> prev]
    ELSE LET next == s.nxt[current]
         IN ReverseLoop([s EXCEPT !.nxt[current] = prev], current, next)

\* A faulty Reverse: the sentinel is not moved to the former last cell.
Reverse_keeps_head(s, l) == ReverseLoop(s, Null, s.head[l]).st

\* Reverse()
Reverse(s, l) ==
    LET r == ReverseLoop(s, Null, s.head[l])
    IN [r.st EXCEPT !.head[l] = r.prev]

RECURSIVE ClearLoop(_, _)
ClearLoop(s, current) ==
    IF current = Null THEN s
    ELSE LET next == s.nxt[current]
         IN ClearLoop(Delete(s, current), next)

\* A faulty Clear: the cells are dropped without delete.
Clear_forgets_nodes(s, l) == [s EXCEPT !.head[l] = Null, !.size[l] = 0]

\* Clear()
Clear(s, l) ==
    [ClearLoop(s, s.head[l]) EXCEPT !.head[l] = Null, !.size[l] = 0]

\* ~SingleLinkedList()
Dtor(s, l) == [Clear(s, l) EXCEPT !.live[l] = FALSE]

\* An exception leaves a constructor: the object never existed, ~SingleLinkedList
\* is not run, and head_ (a Node, trivially destroyed) goes with the storage.
CtorThrown(s, l) == [s EXCEPT !.head[l] = Null, !.size[l] = 0, !.live[l] = FALSE]

\* for (const auto& el : values) PushFront(el); `budget` allocations succeed
RECURSIVE PushAll(_, _, _, _)
PushAll(s, l, values, budget) ==
    IF values = <<>> THEN s
    ELSE LET s1 == PushFront(s, l, Head(values), budget > 0)
         IN IF s1.threw THEN s1 ELSE PushAll(s1, l, Tail(values), budget - 1)

\* A faulty constructor: the final Reverse() is missing.
InitListCtor_no_reverse(s, l, values, budget) ==
    LET s1 == PushAll([s EXCEPT !.head[l] = Null, !.size[l] = 0], l, values, budget)
    IN IF s1.threw THEN CtorThrown(s1, l) ELSE [s1 EXCEPT !.live[l] = TRUE]

\* SingleLinkedList(std::initializer_list<Type> values)
InitListCtor(s, l, values, budget) ==
    LET s1 == PushAll([s EXCEPT !.head[l] = Null, !.size[l] = 0], l, values, budget)
    IN IF s1.threw THEN CtorThrown(s1, l)
       ELSE [Reverse(s1, l) EXCEPT !.live[l] = TRUE]

\* while (current) { *last_ptr = new Node(...); last_ptr = &next; current = next }
\* last_ptr is the position whose next_node field it addresses.
RECURSIVE CopyLoop(_, _, _, _)
CopyLoop(s, current, last_ptr, budget) ==
    IF current = Null THEN s
    ELSE IF ~(budget > 0 /\ HasFree(s)) THEN Throw(s)
    ELSE LET a == Fresh(s)
             s1 == SetNext(NewNode(s, s.val[current], Null), last_ptr, a)
         IN CopyLoop(s1, s.nxt[current], a, budget - 1)

\* A faulty copy constructor: the head link is copied, not the cells.
CopyCtor_shallow(s, l, other, budget) ==
    [s EXCEPT !.head[l] = s.head[other], !.size[l] = s.size[other], !.live[l] = TRUE]

\* SingleLinkedList(const SingleLinkedList& other)
CopyCtor(s, l, other, budget) ==
    LET s1 == CopyLoop([s EXCEPT !.head[l] = Null, !.size[l] = 0],
                       s.head[other], Sentinel(l), budget)
    IN IF s1.threw THEN CtorThrown(s1, l)
       ELSE [s1 EXCEPT !.size[l] = s.size[other], !.live[l] = TRUE]

\* A faulty operator=: the target is cleared, then filled in place.
CopyAssign_clear_first(s, l, rhs, budget) ==
    IF l = rhs THEN s
    ELSE LET c == Clear(s, l)
             s1 == CopyLoop(c, c.head[rhs], Sentinel(l), budget)
         IN IF s1.threw THEN s1 ELSE [s1 EXCEPT !.size[l] = s.size[rhs]]

\* operator=(const SingleLinkedList& rhs)
CopyAssign(s, l, rhs, budget) ==
    IF l = rhs THEN s
    ELSE LET t == CopyCtor(s, Temp, rhs, budget)
         IN IF t.threw THEN t ELSE Dtor(swap(t, l, Temp), Temp)

\* A faulty InsertAfter: the new cell is not linked to the old successor.
InsertAfter_drops_tail(s, l, pos, value, ok) ==
    IF pos = Null THEN Abort(s)
    ELSE IF ~(ok /\ HasFree(s)) THEN Throw(s)
    ELSE LET new_node == Fresh(s)
             s1 == SetNext(NewNode(s, value, Null), pos, new_node)
         IN [s1 EXCEPT !.size[l] = @ + 1, !.ret = new_node]

\* InsertAfter(pos, value)
InsertAfter(s, l, pos, value, ok) ==
    IF pos = Null THEN Abort(s)
    ELSE IF ~(ok /\ HasFree(s)) THEN Throw(s)
    ELSE LET new_node == Fresh(s)
             s1 == SetNext(NewNode(s, value, NextOf(s, pos)), pos, new_node)
         IN [s1 EXCEPT !.size[l] = @ + 1, !.ret = new_node]

\* A PopFront that asserts a non-empty list instead of testing for it.
PopFront_asserts(s, l) ==
    IF s.head[l] = Null THEN Abort(s)
    ELSE LET first_node == s.head[l]
             s1 == [s EXCEPT !.head[l] = s.nxt[first_node]]
         IN [Delete(s1, first_node) EXCEPT !.size[l] = @ - 1]

\* PopFront(): size_ (a size_t) is decremented only under the test, so it never wraps
PopFront(s, l) ==
    IF s.head[l] # Null
    THEN LET first_node == s.head[l]
             s1 == [s EXCEPT !.head[l] = s.nxt[first_node]]
         IN [Delete(s1, first_node) EXCEPT !.size[l] = @ - 1]
    ELSE s

\* A faulty EraseAfter: it returns the erased cell.
EraseAfter_returns_erased(s, l, pos) ==
    IF pos = Null THEN Abort(s)
    ELSE LET delete_mode == NextOf(s, pos)
         IN IF delete_mode # Null
            THEN LET s1 == SetNext(s, pos, s.nxt[delete_mode])
                 IN [Delete(s1, delete_mode) EXCEPT !.size[l] = @ - 1, !.ret = delete_mode]
            ELSE [s EXCEPT !.ret = NextOf(s, pos)]

\* EraseAfter(pos)
EraseAfter(s, l, pos) ==
    IF pos = Null THEN Abort(s)
    ELSE LET delete_mode == NextOf(s, pos)
             s2 == IF delete_mode # Null
                   THEN LET s1 == SetNext(s, pos, s.nxt[delete_mode])
                        IN [Delete(s1, delete_mode) EXCEPT !.size[l] = @ - 1]
                   ELSE s
         IN [s2 EXCEPT !.ret = NextOf(s2, pos)]

\* operator==(lhs, rhs)
RECURSIVE EqualLoop(_, _, _)
EqualLoop(s, it1, it2) ==
    IF it1 # end /\ it2 # end
    THEN IF Deref(s, it1) # Deref(s, it2) THEN FALSE
         ELSE EqualLoop(s, Advance(s, it1), Advance(s, it2))
    ELSE TRUE

Equal(s, lhs, rhs) ==
    IF GetSize(s, lhs) # GetSize(s, rhs) THEN FALSE
    ELSE EqualLoop(s, begin(s, lhs), begin(s, rhs))

---------------------------------------------------------------------------
(* The program: calls on the list objects *)

Init ==
    /\ live = [l \in AllLists |-> FALSE]
    /\ head = [l \in AllLists |-> Null]
    /\ size = [l \in AllLists |-> 0]
    /\ alloc = [n \in Nodes |-> FALSE]
    /\ val = [n \in Nodes |-> 0]
    /\ nxt = [n \in Nodes |-> Null]
    /\ badFree = FALSE
    /\ aborted = FALSE
    /\ threw = FALSE
    /\ ret = Null
    /\ call = [op |-> "none", l |-> 1, n |-> 0]

\* The state a call starts from: no exception in flight, nothing returned yet.
Start == [Cur EXCEPT !.threw = FALSE, !.ret = Null]

\* The call's record: its name, its list, GetSize() before it.
Called(name, l) == [op |-> name, l |-> l, n |-> size[l]]

\* The state a call leaves.
Install(r, c) ==
    /\ live' = r.live
    /\ head' = r.head
    /\ size' = r.size
    /\ alloc' = r.alloc
    /\ val' = r.val
    /\ nxt' = r.nxt
    /\ badFree' = r.badFree
    /\ aborted' = r.aborted
    /\ threw' = r.threw
    /\ ret' = r.ret
    /\ call' = c

\* The positions of list l a caller may pass: before_begin() and its cells.
ValidPos(s, l) == {before_begin(l)} \cup ChainSet(s, l)

\* A member function of l can be called: the program runs and l is constructed.
Callable(l) == ~aborted /\ live[l]
\* l can be constructed: the program runs and l is not (or no longer) an object.
Constructible(l) == ~aborted /\ ~live[l]

DoDefaultCtor(l) ==
    /\ Constructible(l)
    /\ Install(DefaultCtor(Start, l), Called("DefaultCtor", l))

DoInitListCtor(l, values, budget) ==
    /\ Constructible(l)
    /\ Install(InitListCtor(Start, l, values, budget), Called("InitListCtor", l))

DoCopyCtor(l, other, budget) ==
    /\ Constructible(l) /\ Callable(other)
    /\ Install(CopyCtor(Start, l, other, budget), Called("CopyCtor", l))

DoCopyAssign(l, rhs, budget) ==
    /\ Callable(l) /\ Callable(rhs)
    /\ Install(CopyAssign(Start, l, rhs, budget),
               Called(IF l = rhs THEN "SelfAssign" ELSE "CopyAssign", l))

DoDtor(l) ==
    /\ Callable(l)
    /\ Install(Dtor(Start, l), Called("Dtor", l))

DoPushFront(l, value, ok) ==
    /\ Callable(l)
    /\ Install(PushFront(Start, l, value, ok), Called("PushFront", l))

DoPopFront(l) ==
    /\ Callable(l)
    /\ Install(PopFront(Start, l), Called("PopFront", l))

DoInsertAfter(l, pos, value, ok) ==
    /\ Callable(l)
    /\ Install(InsertAfter(Start, l, pos, value, ok), Called("InsertAfter", l))

DoEraseAfter(l, pos) ==
    /\ Callable(l)
    /\ Install(EraseAfter(Start, l, pos), Called("EraseAfter", l))

DoReverse(l) ==
    /\ Callable(l)
    /\ Install(Reverse(Start, l), Called("Reverse", l))

DoClear(l) ==
    /\ Callable(l)
    /\ Install(Clear(Start, l), Called("Clear", l))

\* l.swap(other), also reached through the free function swap(lhs, rhs)
DoSwap(l, other) ==
    /\ Callable(l) /\ Callable(other)
    /\ Install(swap(Start, l, other), Called("swap", l))

\* Some value, where the call does not get to read it.
AnyValue == CHOOSE v \in Values : TRUE

\* The number of cells `new` can still hand out.
FreeCells == Cardinality({n \in Nodes : ~alloc[n]})

\* Any call, any allocation outcome: `budget` allocations succeed and the next
\* one throws (a budget of all the call needs lets it complete). The constructor
\* from a list never reads the elements after the one whose allocation throws,
\* so its throwing calls are those whose last element's allocation throws; a
\* throwing `new` in PushFront or InsertAfter comes before the value or the
\* position is used, and the assert on a null position before the value is; a
\* self-assignment allocates nothing.
Next ==
    \E l \in Lists :
        \/ DoDefaultCtor(l)
        \/ \E values \in {v \in InitLists : Len(v) <= FreeCells + 1} :
               \E budget \in {Len(values) - 1, Len(values)} \cap Nat :
                   DoInitListCtor(l, values, budget)
        \/ \E other \in Lists \ {l} : \E budget \in 0..size[other] :
               DoCopyCtor(l, other, budget)
        \/ \E rhs \in Lists \ {l} : \E budget \in 0..size[rhs] : DoCopyAssign(l, rhs, budget)
        \/ DoCopyAssign(l, l, 0)
        \/ DoDtor(l)
        \/ \E value \in Values : DoPushFront(l, value, TRUE)
        \/ DoPushFront(l, AnyValue, FALSE)
        \/ DoPopFront(l)
        \/ \E pos \in ValidPos(Cur, l), value \in Values : DoInsertAfter(l, pos, value, TRUE)
        \/ DoInsertAfter(l, before_begin(l), AnyValue, FALSE)
        \/ DoInsertAfter(l, Null, AnyValue, TRUE)
        \/ \E pos \in ValidPos(Cur, l) \cup {Null} : DoEraseAfter(l, pos)
        \/ DoReverse(l)
        \/ DoClear(l)
        \/ \E other \in Lists : DoSwap(l, other)

Spec == Init /\ [][Next]_vars

\* The same calls when no allocation is made to fail: a call that would need a
\* cell the pool does not have is not made.
NextOK ==
    \E l \in Lists :
        \/ \E values \in {v \in InitLists : Len(v) <= FreeCells} :
               DoInitListCtor(l, values, Len(values))
        \/ \E other \in Lists \ {l} : DoCopyCtor(l, other, size[other]) /\ ~threw'
        \/ \E rhs \in Lists \ {l} : DoCopyAssign(l, rhs, size[rhs]) /\ ~threw'
        \/ DoCopyAssign(l, l, 0)
        \/ \E value \in Values : DoPushFront(l, value, TRUE) /\ ~threw'
        \/ \E pos \in ValidPos(Cur, l), value \in Values :
               DoInsertAfter(l, pos, value, TRUE) /\ ~threw'
        \/ DoInsertAfter(l, Null, AnyValue, TRUE)
        \/ \E pos \in ValidPos(Cur, l) \cup {Null} : DoEraseAfter(l, pos)
        \/ DoDefaultCtor(l) \/ DoDtor(l) \/ DoPopFront(l) \/ DoReverse(l) \/ DoClear(l)
        \/ \E other \in Lists : DoSwap(l, other)

SpecOK == Init /\ [][NextOK]_vars

---------------------------------------------------------------------------
(* Properties *)

Rev(sq) == [i \in 1..Len(sq) |-> sq[Len(sq) + 1 - i]]
RemoveAt(sq, i) == [j \in 1..(Len(sq) - 1) |-> IF j < i THEN sq[j] ELSE sq[j + 1]]
\* sq with x put right after its first i elements
InsertAt(sq, i, x) ==
    [j \in 1..(Len(sq) + 1) |-> IF j <= i THEN sq[j] ELSE IF j = i + 1 THEN x ELSE sq[j - 1]]
\* How many cells of chain c come up to and including position pos (0: the sentinel)
PosIndex(c, pos) == IF pos < 0 THEN 0 ELSE CHOOSE i \in 1..Len(c) : c[i] = pos
\* The live lists that reach cell n
Owners(s, n) == {l \in AllLists : s.live[l] /\ n \in ChainSet(s, l)}
Leaked(s) == {n \in Nodes : s.alloc[n] /\ Owners(s, n) = {}}

\* C1: in every state the cached size_ of every live list is the number of cells
\* reached from its sentinel by next_node, and IsEmpty() is true exactly when
\* that number is 0.
SizeMatchesChain ==
    \A l \in Lists : Callable(l) =>
        /\ GetSize(Cur, l) = Len(Chain(Cur, l))
        /\ IsEmpty(Cur, l) <=> (Len(Chain(Cur, l)) = 0)

\* A swap has exchanged two lists of different, non-zero lengths.
SizeMatchesChainWitness ==
    /\ call.op = "swap"
    /\ live[1] /\ live[2]
    /\ size[1] > 0 /\ size[2] > size[1]

\* C2: when no allocation fails, every allocated cell is reached from exactly one
\* live list, no freed cell is reached from any list, no cell is deleted twice,
\* and Clear and the destructor free every cell the list held, and only those.
ExclusiveOwnership ==
    /\ \A n \in Nodes : alloc[n] => Cardinality(Owners(Cur, n)) = 1
    /\ \A n \in Nodes : ~alloc[n] => Owners(Cur, n) = {}
    /\ ~badFree
    /\ ~live[Temp]
    /\ \A l \in Lists : Callable(l) =>
           \A r \in {Clear(Start, l), Dtor(Start, l)} :
               /\ ~r.badFree
               /\ \A n \in Nodes :
                      r.alloc[n] = (alloc[n] /\ n \notin ChainSet(Cur, l))

\* A copy assignment onto a non-empty list has destroyed its temporary, which
\* held the target's former cells, and the target is non-empty again.
ExclusiveOwnershipWitness ==
    /\ call.op = "CopyAssign"
    /\ call.n > 0
    /\ size[call.l] > 0
    /\ \E n \in Nodes : ~alloc[n]

\* C3, as claimed: a PopFront on an empty list fails fast (the assertion ends
\* the program) instead of returning normally.
PopFrontOnEmptyFailsFast ==
    (call.op = "PopFront" /\ call.n = 0) => aborted

\* C3, amended: PopFront on an empty list returns normally with nothing changed;
\* on a non-empty list it frees the first cell, links the sentinel to the second
\* and decrements size_ by one.
PopFrontContract ==
    \A l \in Lists : Callable(l) =>
        LET r == PopFront(Start, l)
            c == Chain(Start, l)
        IN IF c = <<>>
           THEN r = Start
           ELSE /\ ~r.aborted
                /\ Chain(r, l) = Tail(c)
                /\ r.head[l] = nxt[c[1]]
                /\ r.size[l] = size[l] - 1
                /\ \A n \in Nodes : r.alloc[n] = (alloc[n] /\ n # c[1])
                /\ ~r.badFree

\* PopFront was called on an empty list and returned.
PopFrontContractWitness ==
    /\ call.op = "PopFront"
    /\ call.n = 0
    /\ ~aborted
    /\ live[call.l] /\ size[call.l] = 0

\* C4: a copy assignment that an allocation failure leaves keeps the target's
\* cells, elements and size as they were, and a self-assignment changes nothing.
StrongGuarantee ==
    \A l \in Lists, rhs \in Lists : (Callable(l) /\ Callable(rhs)) =>
        \A budget \in 0..size[rhs] :
            LET r == CopyAssign(Start, l, rhs, budget)
            IN /\ r.threw =>
                   /\ r.live[l]
                   /\ Chain(r, l) = Chain(Start, l)
                   /\ Iterate(r, l) = Iterate(Start, l)
                   /\ GetSize(r, l) = size[l]
               /\ (l = rhs) => (r = Start)

\* A copy assignment onto a non-empty list threw; the target has the size it
\* had, and cells of an abandoned copy are left behind.
StrongGuaranteeWitness ==
    /\ call.op = "CopyAssign"
    /\ threw
    /\ call.n > 0
    /\ size[call.l] = call.n
    /\ Leaked(Cur) # {}

\* C5: for a position of the list with a successor, EraseAfter frees exactly that
\* cell, decrements size_, keeps the other cells in order and returns the cell
\* now after the position (end() if none); for a position without a successor it
\* changes nothing and returns end().
EraseAfterContract ==
    \A l \in Lists : Callable(l) =>
        \A pos \in ValidPos(Cur, l) :
            LET r == EraseAfter(Start, l, pos)
                c == Chain(Start, l)
                i == PosIndex(c, pos)
            IN /\ ~r.aborted
               /\ IF i < Len(c)
                  THEN /\ Chain(r, l) = RemoveAt(c, i + 1)
                       /\ Iterate(r, l) = RemoveAt(Iterate(Start, l), i + 1)
                       /\ r.size[l] = size[l] - 1
                       /\ \A n \in Nodes : r.alloc[n] = (alloc[n] /\ n # c[i + 1])
                       /\ ~r.badFree
                       /\ r.ret = (IF i + 2 <= Len(c) THEN c[i + 2] ELSE end)
                       /\ r.ret = NextOf(r, pos)
                  ELSE /\ r.ret = end
                       /\ [r EXCEPT !.ret = Null] = Start

\* EraseAfter was called on an inner cell of a three-element list and returned
\* the cell that followed the erased one.
EraseAfterContractWitness ==
    /\ call.op = "EraseAfter"
    /\ call.n = 3
    /\ size[call.l] = 2
    /\ ret # end
    /\ ret # begin(Cur, call.l)

\* C6: for a position of the list, an InsertAfter whose allocation succeeds puts
\* one new cell holding the value right after the position, increments size_,
\* returns the new cell, and leaves every cell that existed allocated with its
\* value, and every next_node but the position's, as they were.
InsertAfterContract ==
    \A l \in Lists : (Callable(l) /\ HasFree(Cur)) =>
        \A pos \in ValidPos(Cur, l), value \in Values :
            LET r == InsertAfter(Start, l, pos, value, TRUE)
                c == Chain(Start, l)
                i == PosIndex(c, pos)
            IN /\ ~r.aborted /\ ~r.threw
               /\ ~alloc[r.ret] /\ r.alloc[r.ret]
               /\ Deref(r, r.ret) = value
               /\ Chain(r, l) = InsertAt(c, i, r.ret)
               /\ Iterate(r, l) = InsertAt(Iterate(Start, l), i, value)
               /\ r.size[l] = size[l] + 1
               /\ \A n \in Nodes : alloc[n] =>
                      /\ r.alloc[n]
                      /\ Deref(r, n) = Deref(Start, n)
                      /\ (n # pos) => (Advance(r, n) = Advance(Start, n))
               /\ \A m \in Lists : (Sentinel(m) # pos) => (r.head[m] = head[m])

\* InsertAfter was called on a cell that had a successor: the new cell sits
\* between the two.
InsertAfterContractWitness ==
    /\ call.op = "InsertAfter"
    /\ ~threw /\ ~aborted
    /\ ret # Null
    /\ ret # begin(Cur, call.l)
    /\ Advance(Cur, ret) # end

\* C7: the list constructed from an initializer list iterates as exactly that
\* list, in order, and GetSize() is its length; from the empty list,
\* begin() = end().
InitListRoundTrip ==
    \A l \in Lists : Constructible(l) =>
        \A values \in InitLists :
            LET r == InitListCtor(Start, l, values, Len(values))
            IN ~r.threw =>
                   /\ r.live[l]
                   /\ Iterate(r, l) = values
                   /\ GetSize(r, l) = Len(values)
                   /\ (values = <<>>) => (begin(r, l) = end)

\* A list was constructed from three elements, the first differing from the last.
InitListRoundTripWitness ==
    /\ call.op = "InitListCtor"
    /\ ~threw
    /\ live[call.l]
    /\ Len(Iterate(Cur, call.l)) = 3
    /\ Iterate(Cur, call.l)[1] # Iterate(Cur, call.l)[3]

\* What one mutating call on list l may leave.
Mutations(s, l) ==
    {PushFront(s, l, v, TRUE) : v \in Values}
    \cup {PopFront(s, l), Reverse(s, l), Clear(s, l), Dtor(s, l)}
    \cup {InsertAfter(s, l, pos, v, TRUE) : pos \in ValidPos(s, l), v \in Values}
    \cup {EraseAfter(s, l, pos) : pos \in ValidPos(s, l)}

\* The copy `l` equals the source `src` (operator== and element by element),
\* shares no cell with it, and the source is as it was in `s`.
DeepCopyOf(s, r, l, src) ==
    /\ r.live[l]
    /\ Equal(r, l, src)
    /\ Iterate(r, l) = Iterate(s, src)
    /\ GetSize(r, l) = GetSize(s, src)
    /\ ChainSet(r, l) \cap ChainSet(r, src) = {}
    /\ Chain(r, src) = Chain(s, src)
    /\ Iterate(r, src) = Iterate(s, src)
    /\ GetSize(r, src) = GetSize(s, src)

ReverseInPlace ==
    \A l \in Lists : Callable(l) =>
        LET r == Reverse(Start, l)
            c == Chain(Start, l)
        IN /\ Chain(r, l) = Rev(c)
           /\ Iterate(r, l) = Rev(Iterate(Start, l))
           /\ r.alloc = alloc
           /\ r.val = val
           /\ r.size = size
           /\ (c # <<>>) => (begin(r, l) = c[Len(c)])
           /\ Reverse(r, l) = Start
           /\ \A m \in Lists : Callable(m) =>
                  (Equal(Reverse(r, l), l, m) <=> Equal(Start, l, m))

\* A three-element list whose ends differ was reversed.
ReverseInPlaceWitness ==
    /\ call.op = "Reverse"
    /\ size[call.l] = 3
    /\ Len(Iterate(Cur, call.l)) = 3
    /\ Iterate(Cur, call.l)[1] # Iterate(Cur, call.l)[3]

\* C10, as claimed: once an allocation failure has left a constructor or the
\* copy assignment, every allocated cell is reached from some live list.
NoLeakAfterFailure ==
    (threw /\ call.op \in {"InitListCtor", "CopyCtor", "CopyAssign"}) =>
        Leaked(Cur) = {}

====
